---- MODULE Spec2Model ----
(***************************************************************************)
(* Issue scoring and duplicate detection (scripts/issue-analysis.py).      *)
(*                                                                         *)
(* The script fetches issue records, gives each a priority score, sorts    *)
(* them by score and groups suspected duplicates by title keywords.        *)
(*                                                                         *)
(* Modelling conventions                                                   *)
(*  - A title is the sequence of lower-cased alphanumeric tokens that      *)
(*    line 51 and split() produce; token lengths are real string lengths.  *)
(*  - A timestamp is <<its age in days at the moment of evaluation>>, or  *)
(*    <<>> for a missing or unparsable one.                                *)
(*  - Scores are kept exactly, as integers scaled by Scale.                *)
(*  - Python leaves the iteration order of a set unspecified: wherever the *)
(*    code iterates a set, the model chooses the order nondeterministically.*)
(***************************************************************************)
EXTENDS Integers, Sequences, FiniteSets, TLC

VARIABLES
    pc,                 \* position of main()
    returncode,         \* result.returncode of the gh subprocess ("none" before)
    stderr,             \* diagnostics written so far
    stdout,             \* lines rendered so far
    exitCode,           \* process exit status ("none" while running)
    issues,             \* main's list of issue dicts
    keyword_to_issues,  \* keyword -> set of issue numbers
    kwOrder,            \* insertion order of keyword_to_issues
    issue_keywords,     \* issue number -> keyword set
    pairs,              \* issue number -> [related, shared]
    pairsOrder,         \* insertion order of pairs
    seen_pairs,         \* set of <<n1, n2>>
    kwIdx,              \* next keyword of the pairing loop
    primIdx,            \* next candidate of the grouping loop
    candidates,         \* the sorted candidate primaries of the grouping loop
    used,               \* consumed issue numbers
    groups,             \* emitted groups
    simIn, simOut,      \* arguments and result of compute_similarity
    scoreIn, scoreOut   \* arguments and results of calculate_score

mainVars == <<pc, returncode, stderr, stdout, exitCode, issues>>
groupVars == <<keyword_to_issues, kwOrder, issue_keywords, pairs, pairsOrder,
               seen_pairs, kwIdx, primIdx, candidates, used, groups>>
pureVars == <<simIn, simOut, scoreIn, scoreOut>>
vars == <<mainVars, groupVars, pureVars>>

-----------------------------------------------------------------------------
(* Generic helpers *)

Range(s) == {s[i] : i \in DOMAIN s}

Max(a, b) == IF a >= b THEN a ELSE b

Min(a, b) == IF a <= b THEN a ELSE b

\* All orderings of a finite set, as sequences without repetition.
Perms(S) ==
    {s \in [1..Cardinality(S) -> S] : \A i, j \in 1..Cardinality(S) : s[i] = s[j] => i = j}

RECURSIVE SortedAsc(_)
\* sorted(S) for a set of integers.
SortedAsc(S) ==
    IF S = {} THEN <<>>
    ELSE LET m == CHOOSE x \in S : \A y \in S : x <= y
         IN <<m>> \o SortedAsc(S \ {m})

RECURSIVE InsertByKey(_, _, _)
\* Inserts x into the key-sorted sequence s after every element whose key is
\* not larger (what a stable sort on an ascending key does). key is a function.
InsertByKey(s, x, key) ==
    IF s = <<>> THEN <<x>>
    ELSE IF key[x] < key[Head(s)] THEN <<x>> \o s
    ELSE <<Head(s)>> \o InsertByKey(Tail(s), x, key)

RECURSIVE StableSort(_, _)
\* sorted(s, key=...): ascending in key, equal keys keep their order in s.
StableSort(s, key) ==
    IF s = <<>> THEN <<>>
    ELSE InsertByKey(StableSort(SubSeq(s, 1, Len(s) - 1), key), s[Len(s)], key)

RECURSIVE SumLen(_)
\* sum(len(w) for w in S)
SumLen(S) ==
    IF S = {} THEN 0
    ELSE LET w == CHOOSE x \in S : TRUE IN Len(w) + SumLen(S \ {w})

-----------------------------------------------------------------------------
(* Fixed vocabularies *)

STOP_WORDS ==
    {"the", "a", "an", "in", "on", "for", "to", "of", "and", "or", "is", "are",
     "with", "when", "not", "does", "do", "using", "use", "after", "before",
     "from", "into", "how", "can", "cannot", "could", "should", "would", "will",
     "been", "being", "have", "has", "had", "this", "that", "these", "those",
     "i", "we", "you", "it", "my", "your", "our", "its", "their", "add",
     "request", "feature", "feat", "issue", "problem", "fix", "update", "make",
     "allow", "enable", "get", "set", "new", "works", "work", "way", "need",
     "want", "support", "create", "bug", "error"}

BROAD_WORDS ==
    {"error", "type", "types", "next", "auth", "user", "users", "data", "login",
     "client", "server", "plugin", "plugins", "page", "file", "files", "based",
     "better", "working", "doesn", "getting", "trying", "returns", "return",
     "field", "fields", "when", "custom", "option", "options", "session",
     "token", "tokens", "only", "still", "also", "just", "some", "same",
     "being", "used", "after", "there", "like", "email", "admin", "without",
     "default", "fails", "failed", "schema", "endpoint", "endpoints",
     "issue", "issues", "method", "current", "setting", "ability", "signed",
     "logged", "signing", "logging", "account", "accounts", "password",
     "verification", "multiple", "provider", "google", "social", "signin"}

MinNormalLen == 3

MinKeywordLen == 4

\* normalize_title: the tokens that are no stop word and have 3+ characters.
normalize_title(title) ==
    SelectSeq(title, LAMBDA w : w \notin STOP_WORDS /\ Len(w) >= MinNormalLen)

\* extract_keywords: the normalized tokens that are no broad word and have
\* 4+ characters, as a set.
extract_keywords(title) ==
    {w \in Range(normalize_title(title)) : w \notin BROAD_WORDS /\ Len(w) >= MinKeywordLen}

-----------------------------------------------------------------------------
(* compute_similarity *)

MinSharedCount == 2

MinSharedScore == 10

SpecificLen == 8

\* A slip in the threshold comparison: > instead of >=.
SimAcceptStrict(shared, score) ==
    \/ (Cardinality(shared) >= MinSharedCount /\ score > MinSharedScore)
    \/ \E w \in shared : Len(w) >= SpecificLen

\* The acceptance test of line 79.
SimAccept(shared, score) ==
    \/ (Cardinality(shared) >= MinSharedCount /\ score >= MinSharedScore)
    \/ \E w \in shared : Len(w) >= SpecificLen

\* compute_similarity(kw1, kw2) = <<score, shared>>
compute_similarity(kw1, kw2) ==
    IF kw1 = {} \/ kw2 = {} THEN <<0, {}>>
    ELSE LET shared == kw1 \cap kw2 IN
         IF shared = {} THEN <<0, {}>>
         ELSE LET score == SumLen(shared) IN
              IF SimAccept(shared, score) THEN <<score, shared>>
              ELSE <<0, {}>>

-----------------------------------------------------------------------------
(* calculate_score *)

\* Scores are integers in units of 1/Scale: 0.5 per comment needs halves,
\* 15/105 per day needs sevenths, the 1.5 multiplier needs halves again.
Scale == 4 * 7

PositiveWeight == 3

RecencyWeight == 15

RecencyDays == 105

RevivalBonus == 10

RevivalMinAge == 180

RevivalMaxIdle == 30

\* score *= 1.5, as the fraction BugNum / BugDen
BugNum == 3

BugDen == 2

\* str.lower() on the label names that occur.
Lower(name) ==
    CASE name = "BUG" -> "bug"
      [] name = "Bug" -> "bug"
      [] name = "Security" -> "security"
      [] name = "SECURITY" -> "security"
      [] OTHER -> name

\* days_since: an unparsable or missing timestamp counts as 0 days.
days_since(ts) == IF ts = <<>> THEN 0 ELSE ts[1]

RECURSIVE TotalCount(_)
\* total_reactions: the counts of all reaction groups, added up.
TotalCount(rgs) ==
    IF rgs = <<>> THEN 0 ELSE Head(rgs).count + TotalCount(Tail(rgs))

RECURSIVE LastCount(_, _)
\* thumbs_up / hearts: the count of the last group of that content, 0 if none.
LastCount(rgs, content) ==
    IF rgs = <<>> THEN 0
    ELSE IF rgs[Len(rgs)].content = content THEN rgs[Len(rgs)].count
    ELSE LastCount(SubSeq(rgs, 1, Len(rgs) - 1), content)

\* A label test that forgets lower().
is_bug_case_sensitive(labels) ==
    \E i \in DOMAIN labels : labels[i] \in {"bug", "security"}

\* is_bug: some label name is "bug" or "security", ignoring case.
is_bug(labels) ==
    \E i \in DOMAIN labels : Lower(labels[i]) \in {"bug", "security"}

\* The score before the label multiplier, in units of 1/Scale.
base_score(issue) ==
    LET thumbs_up == LastCount(issue.reactionGroups, "THUMBS_UP")
        hearts == LastCount(issue.reactionGroups, "HEART")
        total_reactions == TotalCount(issue.reactionGroups)
        days_updated == days_since(issue.updatedAt)
        days_created == days_since(issue.createdAt)
    IN  Scale * PositiveWeight * (thumbs_up + hearts)
        + Scale * (total_reactions - thumbs_up - hearts)
        + (Scale \div 2) * issue.comments
        + (Scale * RecencyWeight * Max(0, RecencyDays - days_updated)) \div RecencyDays
        + (IF days_created > RevivalMinAge /\ days_updated < RevivalMaxIdle
           THEN Scale * RevivalBonus ELSE 0)

\* calculate_score(issue), in units of 1/Scale.
calculate_score(issue) ==
    IF is_bug(issue.labels) THEN (base_score(issue) * BugNum) \div BugDen
    ELSE base_score(issue)

\* int(score): truncation at output.
IntScore(score) == score \div Scale

-----------------------------------------------------------------------------
(* find_duplicate_groups: helpers over main's scored issue list *)

MaxBucket == 15

max_group_size == 6

\* The numbers of the issues of a list, in list order.
Numbers(iss) == [i \in DOMAIN iss |-> iss[i].number]

\* issue_map[n]: the issue dict of number n (the last one, were a number repeated).
issue_map(iss, n) ==
    iss[CHOOSE i \in DOMAIN iss :
            iss[i].number = n /\ \A j \in DOMAIN iss : iss[j].number = n => j <= i]

\* The key -issue_map[x]['score'] of the two sorts, as a function on numbers.
NegScore(iss) == [n \in Range(Numbers(iss)) |-> 0 - issue_map(iss, n).score]

\* The index of the first issue of the list whose title has keyword kw.
FirstHolder(iss, kw) ==
    CHOOSE i \in DOMAIN iss :
        /\ kw \in extract_keywords(iss[i].title)
        /\ \A j \in DOMAIN iss : kw \in extract_keywords(iss[j].title) => i <= j

\* The insertion orders keyword_to_issues can end with: a keyword first met
\* in an earlier issue comes first; the keywords first met in one issue come
\* in the iteration order of that issue's keyword set, which is unspecified.
IndexOrders(iss) ==
    LET kws == UNION {extract_keywords(iss[i].title) : i \in DOMAIN iss}
    IN {o \in Perms(kws) :
            \A a, b \in DOMAIN o :
                FirstHolder(iss, o[a]) < FirstHolder(iss, o[b]) => a < b}

MaxPermuted == 3

\* The iteration orders of a set of issue numbers: every order for a set of
\* up to MaxPermuted numbers, the ascending and the descending one for a
\* larger set.
SetIterOrders(S) ==
    LET asc == SortedAsc(S)
        n == Len(asc)
    IN IF n <= MaxPermuted THEN Perms(S)
       ELSE {asc, [i \in 1..n |-> asc[n + 1 - i]]}

\* Line 154 with the upper cap off by one.
BucketEligibleInclusive(issue_nums) ==
    Cardinality(issue_nums) > 1 /\ Cardinality(issue_nums) <= MaxBucket

\* Line 154: only buckets of 2..14 issues generate candidate pairs.
BucketEligible(issue_nums) ==
    Cardinality(issue_nums) > 1 /\ Cardinality(issue_nums) < MaxBucket

\* The pairs <<n1, n2>> that the loops at lines 156-166 accept for one bucket.
AcceptedPairs(issue_nums, ikw, seen) ==
    {p \in issue_nums \X issue_nums :
        /\ p[1] < p[2]
        /\ p \notin seen
        /\ compute_similarity(ikw[p[1]], ikw[p[2]])[1] > 0}

\* Recording a pair under its larger number instead.
PairOwnerLarger(p) == p[2]

\* Lines 164-165 record an accepted pair under n1, the smaller number.
PairOwner(p) == p[1]

\* The other member of the pair, added to the owner's related set.
PairOther(p) == IF PairOwner(p) = p[1] THEN p[2] ELSE p[1]

\* pairs after one bucket's accepted pairs are recorded.
RecordPairs(prs, acc, ikw) ==
    LET owners == {PairOwner(p) : p \in acc}
        old(n) == IF n \in DOMAIN prs THEN prs[n] ELSE [related |-> {}, shared |-> {}]
    IN [n \in (DOMAIN prs) \cup owners |->
            [related |-> old(n).related \cup {PairOther(p) : p \in {q \in acc : PairOwner(q) = n}},
             shared |-> old(n).shared \cup
                 UNION {compute_similarity(ikw[p[1]], ikw[p[2]])[2] :
                            p \in {q \in acc : PairOwner(q) = n}}]]

\* The keys of pairs in insertion order: the loops create them in ascending n1.
RecordOrder(ord, acc) ==
    ord \o SortedAsc({PairOwner(p) : p \in acc} \ Range(ord))

\* Line 175: the candidate primaries, by descending score, ties in dict order.
SortedCandidates(ord, iss) == StableSort(ord, NegScore(iss))

\* Truncating to max_group_size related members, forgetting the primary.
TakeRelatedWide(sorted) == SubSeq(sorted, 1, Min(Len(sorted), max_group_size))

\* Line 184: at most max_group_size - 1 related members.
TakeRelated(sorted) == SubSeq(sorted, 1, Min(Len(sorted), max_group_size - 1))

\* Leaving the consumed issues in the related list.
AvailableAll(iterOrder, usedSet) == iterOrder

\* Line 179: the related members not yet consumed, in set iteration order.
Available(iterOrder, usedSet) == SelectSeq(iterOrder, LAMBDA r : r \notin usedSet)

\* Always displaying the pairwise union.
SharedKeywordsUnion(primary, related, ikw, prs) == prs[primary].shared

\* Lines 187-193: the keywords common to the whole group, or, when there are
\* none, the union of the pairwise shared keywords recorded for the primary.
SharedKeywords(primary, related, ikw, prs) ==
    LET common == {w \in ikw[primary] : \A i \in DOMAIN related : w \in ikw[related[i]]}
    IN IF common = {} THEN prs[primary].shared ELSE common

\* Lines 197-209: the group dict (titles without the truncated title text).
MakeGroup(primary, related, shared_kw, iss) ==
    [primary |-> primary,
     related |-> related,
     sharedKeywords |-> shared_kw,
     titles |-> [i \in 1..(Len(related) + 1) |->
                    LET n == (<<primary>> \o related)[i]
                    IN [number |-> n, score |-> IntScore(issue_map(iss, n).score)]]]

-----------------------------------------------------------------------------
(* Inputs: what the fetch collaborator can return *)

MaxIssues == 3

MaxBulk == 13

Titles ==
    {<<"redirect", "fails">>,
     <<"callback", "bug">>,
     <<"fix", "redirect", "callback">>,
     <<"oauth", "login", "jwt">>}

\* An issue nobody reacted to, idle for 200 days.
QuietProfile ==
    [reactionGroups |-> <<>>, comments |-> 0,
     updatedAt |-> <<200>>, createdAt |-> <<200>>, labels |-> <<>>]

\* The same issue with one thumbs-up.
LikedProfile ==
    [reactionGroups |-> <<[content |-> "THUMBS_UP", count |-> 1]>>, comments |-> 0,
     updatedAt |-> <<200>>, createdAt |-> <<200>>, labels |-> <<>>]

Profiles == {QuietProfile, LikedProfile}

RawIssue(number, title, profile) ==
    [number |-> number, title |-> title,
     reactionGroups |-> profile.reactionGroups, comments |-> profile.comments,
     updatedAt |-> profile.updatedAt, createdAt |-> profile.createdAt,
     labels |-> profile.labels]

\* The numbers 1..n in the order of the fetched list: gh lists the newest
\* issue first; the oldest first is the other order drawn.
FetchOrders(n) == {[i \in 1..n |-> n + 1 - i], [i \in 1..n |-> i]}

-----------------------------------------------------------------------------
(* main *)

TopN == 30

OutputModes == {"json", "scored", "duplicates", "both"}

\* Nothing fetched, nothing written, no exit status yet (-1).
Idle ==
    /\ returncode = -1
    /\ stderr = <<>>
    /\ stdout = <<>>
    /\ exitCode = -1
    /\ issues = <<>>
    /\ keyword_to_issues = <<>>
    /\ kwOrder = <<>>
    /\ issue_keywords = <<>>
    /\ pairs = <<>>
    /\ pairsOrder = <<>>
    /\ seen_pairs = {}
    /\ kwIdx = 0
    /\ primIdx = 0
    /\ candidates = <<>>
    /\ used = {}
    /\ groups = <<>>

Init ==
    /\ Idle
    /\ pc = "start"
    /\ simIn = <<{}, {}>>
    /\ simOut = <<>>
    /\ scoreIn = <<>>
    /\ scoreOut = <<>>

\* Lines 224-237 when gh succeeds: its output is parsed into the issue list.
Fetched(list) ==
    /\ returncode' = 0
    /\ stderr' = Append(stderr, "Fetching issues")
    /\ issues' = list
    /\ pc' = "score"
    /\ UNCHANGED <<stdout, exitCode, groupVars, pureVars>>

\* A successful fetch of up to MaxIssues issues, numbered 1..n, each with any
\* of the titles and profiles.
FetchOk ==
    /\ pc = "start"
    /\ \E n \in 0..MaxIssues :
         \E nums \in FetchOrders(n), ts \in [1..n -> Titles], ps \in [1..n -> Profiles] :
           Fetched([i \in 1..n |-> RawIssue(nums[i], ts[i], ps[i])])

\* A successful fetch of a bulk of up to MaxBulk issues of one title and
\* profile, numbered 2..b+1, between the issues 1 and b+2.
FetchBulk ==
    /\ pc = "start"
    /\ \E b \in 0..MaxBulk :
         \E t1 \in Titles, p1 \in Profiles, tb \in Titles, pb \in Profiles, t2 \in Titles :
           Fetched(<<RawIssue(1, t1, p1)>>
                   \o [i \in 1..b |-> RawIssue(i + 1, tb, pb)]
                   \o <<RawIssue(b + 2, t2, QuietProfile)>>)

\* A failed fetch taken for an empty issue list.
FetchFailAsEmpty ==
    /\ pc = "start"
    /\ \E rc \in {1, 2} :
        /\ returncode' = rc
        /\ stderr' = Append(stderr, "Fetching issues")
        /\ issues' = <<>>
        /\ pc' = "score"
    /\ UNCHANGED <<stdout, exitCode, groupVars, pureVars>>

\* Lines 224-235 when gh fails: report on stderr and sys.exit(1).
FetchFail ==
    /\ pc = "start"
    /\ \E rc \in {1, 2} :
        /\ returncode' = rc
        /\ stderr' = stderr \o <<"Fetching issues", "Error fetching issues">>
        /\ exitCode' = 1
        /\ pc' = "exit"
    /\ UNCHANGED <<stdout, issues, groupVars, pureVars>>

\* Lines 240-241: every issue gets its score.
ScoreIssues ==
    /\ pc = "score"
    /\ issues' = [i \in DOMAIN issues |->
                    [number |-> issues[i].number, title |-> issues[i].title,
                     reactionGroups |-> issues[i].reactionGroups,
                     comments |-> issues[i].comments,
                     updatedAt |-> issues[i].updatedAt,
                     createdAt |-> issues[i].createdAt,
                     labels |-> issues[i].labels,
                     score |-> calculate_score(issues[i])]]
    /\ pc' = "sort"
    /\ UNCHANGED <<returncode, stderr, stdout, exitCode, groupVars, pureVars>>

\* Line 244: stable sort by descending score.
SortIssues ==
    /\ pc = "sort"
    /\ issues' = StableSort(issues, [x \in Range(issues) |-> 0 - x.score])
    /\ pc' = "index"
    /\ UNCHANGED <<returncode, stderr, stdout, exitCode, groupVars, pureVars>>

-----------------------------------------------------------------------------
(* find_duplicate_groups *)

\* Lines 139-147: the keyword index and the per-issue keyword sets.
BuildIndex ==
    /\ pc = "index"
    /\ issue_keywords' =
           [n \in Range(Numbers(issues)) |-> extract_keywords(issue_map(issues, n).title)]
    /\ keyword_to_issues' =
           [kw \in UNION {extract_keywords(issues[i].title) : i \in DOMAIN issues} |->
               {issues[i].number : i \in {j \in DOMAIN issues :
                                              kw \in extract_keywords(issues[j].title)}}]
    /\ \E o \in IndexOrders(issues) :
        /\ kwOrder' = o
        /\ kwIdx' = 1
        /\ pc' = IF o = <<>> THEN "output" ELSE "pairs"
    /\ pairs' = <<>>
    /\ pairsOrder' = <<>>
    /\ seen_pairs' = {}
    /\ candidates' = <<>>
    /\ primIdx' = 1
    /\ used' = {}
    /\ groups' = <<>>
    /\ UNCHANGED <<returncode, stderr, stdout, exitCode, issues, pureVars>>

\* Lines 153-166 for one keyword of the index; after the last keyword,
\* line 175 sorts the candidate primaries.
PairKeyword ==
    /\ pc = "pairs"
    /\ kwIdx <= Len(kwOrder)
    /\ LET issue_nums == keyword_to_issues[kwOrder[kwIdx]]
           acc == IF BucketEligible(issue_nums)
                  THEN AcceptedPairs(issue_nums, issue_keywords, seen_pairs)
                  ELSE {}
           newOrder == RecordOrder(pairsOrder, acc)
           last == (kwIdx = Len(kwOrder))
       IN /\ pairs' = RecordPairs(pairs, acc, issue_keywords)
          /\ pairsOrder' = newOrder
          /\ seen_pairs' = seen_pairs \cup acc
          /\ kwIdx' = kwIdx + 1
          /\ candidates' = IF last THEN SortedCandidates(newOrder, issues) ELSE candidates
          /\ pc' = IF ~last THEN "pairs"
                   ELSE IF newOrder = <<>> THEN "output" ELSE "groups"
    /\ UNCHANGED <<returncode, stderr, stdout, exitCode, issues, keyword_to_issues,
                   kwOrder, issue_keywords, primIdx, used, groups, pureVars>>

\* Lines 175-213 for one candidate primary.
BuildGroup ==
    /\ pc = "groups"
    /\ primIdx <= Len(candidates)
    /\ LET primary == candidates[primIdx] IN
       \E iterOrder \in SetIterOrders(pairs[primary].related) :
          LET avail == Available(iterOrder, used)
              related == TakeRelated(StableSort(avail, NegScore(issues)))
              shared_kw == SharedKeywords(primary, related, issue_keywords, pairs)
              skip == primary \in used \/ avail = <<>>
          IN /\ groups' = IF skip THEN groups
                          ELSE Append(groups, MakeGroup(primary, related, shared_kw, issues))
             /\ used' = IF skip THEN used ELSE used \cup {primary} \cup Range(related)
    /\ primIdx' = primIdx + 1
    /\ pc' = IF primIdx = Len(candidates) THEN "output" ELSE "groups"
    /\ UNCHANGED <<returncode, stderr, stdout, exitCode, issues, keyword_to_issues,
                   kwOrder, issue_keywords, pairs, pairsOrder, seen_pairs, kwIdx,
                   candidates, pureVars>>

-----------------------------------------------------------------------------
(* main, continued: rendering *)

\* Lines 250-253: the scored list.
Scored(iss) ==
    [i \in DOMAIN iss |->
        [kind |-> "scored", score |-> IntScore(iss[i].score), number |-> iss[i].number]]

RECURSIVE GroupLines(_)
\* Lines 262-266: a header line per group and a line per member.
GroupLines(gs) ==
    IF gs = <<>> THEN <<>>
    ELSE <<[kind |-> "group", shared |-> Head(gs).sharedKeywords]>>
         \o [i \in DOMAIN Head(gs).titles |->
                [kind |-> "member", score |-> Head(gs).titles[i].score,
                 number |-> Head(gs).titles[i].number]]
         \o GroupLines(Tail(gs))

Render(mode, iss, gs) ==
    CASE mode = "json" ->
            <<[kind |-> "json", scored |-> Scored(iss), duplicateGroups |-> gs]>>
      [] mode = "scored" -> Scored(iss)
      [] mode = "duplicates" ->
            <<[kind |-> "header", text |-> "POTENTIAL DUPLICATE GROUPS"]>> \o GroupLines(gs)
      [] OTHER ->
            <<[kind |-> "header", text |-> "TOP SCORED ISSUES"]>>
            \o SubSeq(Scored(iss), 1, Min(TopN, Len(iss)))
            \o <<[kind |-> "header", text |-> "POTENTIAL DUPLICATE GROUPS"]>>
            \o GroupLines(SubSeq(gs, 1, Min(TopN, Len(gs))))

\* Lines 249-277: the output in the mode of argv[3]; the mode is read here.
Output ==
    /\ pc = "output"
    /\ \E mode \in OutputModes : stdout' = Render(mode, issues, groups)
    /\ exitCode' = 0
    /\ pc' = "done"
    /\ UNCHANGED <<returncode, stderr, issues, groupVars, pureVars>>

MainNext == FetchFail \/ ScoreIssues \/ SortIssues \/ BuildIndex \/ PairKeyword
            \/ BuildGroup \/ Output

Next == FetchOk \/ MainNext

Spec == Init /\ [][Next]_vars

NextBulk == FetchBulk \/ MainNext

SpecBulk == Init /\ [][NextBulk]_vars

-----------------------------------------------------------------------------
(* compute_similarity on its own: any two keyword sets over Tokens *)

Tokens == {"jwt", "oidc", "oauth", "proxy", "safari", "redirect"}

InitSim ==
    /\ Idle
    /\ pc = "sim"
    /\ simIn \in (SUBSET Tokens) \X (SUBSET Tokens)
    /\ simOut = <<>>
    /\ scoreIn = <<>>
    /\ scoreOut = <<>>

\* One call compute_similarity(kw1, kw2).
SimilarityCall ==
    /\ pc = "sim"
    /\ simOut' = compute_similarity(simIn[1], simIn[2])
    /\ pc' = "simdone"
    /\ UNCHANGED <<returncode, stderr, stdout, exitCode, issues, groupVars,
                   simIn, scoreIn, scoreOut>>

NextSim == SimilarityCall

SpecSim == InitSim /\ [][NextSim]_vars

-----------------------------------------------------------------------------
(* calculate_score on its own: any two issues, scored at the same moment *)

MaxComments == 1

ReactionOptions ==
    {<<>>,
     <<[content |-> "THUMBS_UP", count |-> 2]>>,
     <<[content |-> "HEART", count |-> 1], [content |-> "LAUGH", count |-> 1]>>}

UpdatedOptions == {<<>>, <<10>>, <<40>>, <<200>>}

CreatedOptions == {<<10>>, <<200>>}

LabelOptions == {<<>>, <<"bug">>, <<"docs", "Security">>, <<"docs">>}

ScoreInputs ==
    {RawIssue(1, <<"redirect">>,
              [reactionGroups |-> rg, comments |-> c, updatedAt |-> u,
               createdAt |-> cr, labels |-> l]) :
        rg \in ReactionOptions, c \in 0..MaxComments, u \in UpdatedOptions,
        cr \in CreatedOptions, l \in LabelOptions}

InitScore ==
    /\ Idle
    /\ pc = "calc"
    /\ simIn = <<{}, {}>>
    /\ simOut = <<>>
    /\ scoreIn \in ScoreInputs \X ScoreInputs
    /\ scoreOut = <<>>

\* One call calculate_score(issue), for the first issue and then the second.
ScoreCall ==
    /\ pc = "calc"
    /\ scoreOut' = Append(scoreOut, calculate_score(scoreIn[Len(scoreOut) + 1]))
    /\ pc' = IF Len(scoreOut) = 1 THEN "calcdone" ELSE "calc"
    /\ UNCHANGED <<returncode, stderr, stdout, exitCode, issues, groupVars,
                   simIn, simOut, scoreIn>>

NextScore == ScoreCall

SpecScore == InitScore /\ [][NextScore]_vars

-----------------------------------------------------------------------------
(* Properties *)

\* The members of a group: its primary and its related issues.
Members(g) == {g.primary} \cup Range(g.related)

\* The score and the position of issue n in the list find_duplicate_groups got.
ScoreOf(n) == issue_map(issues, n).score

PosOf(n) == CHOOSE i \in DOMAIN issues : issues[i].number = n

\* x comes before y by descending score, ties by position in the input list.
Before(x, y) ==
    ScoreOf(x) > ScoreOf(y) \/ (ScoreOf(x) = ScoreOf(y) /\ PosOf(x) < PosOf(y))

\* Keyword kw's bucket holds between 2 and 14 issues.
SmallBucket(kw) ==
    Cardinality(keyword_to_issues[kw]) >= 2 /\ Cardinality(keyword_to_issues[kw]) <= 14

\* C1: no issue number is a member of two different groups, and none occurs
\* twice inside one group (the primary is not among its related members and
\* the related list has no repetition).
C1_MutuallyExclusive ==
    /\ \A i, j \in DOMAIN groups :
           i # j => Members(groups[i]) \cap Members(groups[j]) = {}
    /\ \A i \in DOMAIN groups :
           /\ groups[i].primary \notin Range(groups[i].related)
           /\ \A a, b \in DOMAIN groups[i].related :
                  groups[i].related[a] = groups[i].related[b] => a = b

\* C1 witness: a run is over in which a later group's primary had matched an
\* issue that an earlier group had already consumed.
C1_Witness ==
    /\ pc = "done"
    /\ \E i, j \in DOMAIN groups :
           /\ i < j
           /\ pairs[groups[j].primary].related \cap Members(groups[i]) # {}

\* C2: every emitted group has one primary and at most 5 related members,
\* so between 1 and 6 members.
C2_GroupSize ==
    \A i \in DOMAIN groups :
        /\ Len(groups[i].related) <= 5
        /\ Cardinality(Members(groups[i])) >= 1
        /\ Cardinality(Members(groups[i])) <= 6

\* C2 witness: a group of 6 whose primary had matched more than 5 issues,
\* none of them consumed before.
C2_Witness ==
    \E i \in DOMAIN groups :
        /\ i = 1
        /\ Len(groups[i].related) = 5
        /\ Cardinality(pairs[groups[i].primary].related) > 5

\* C3: compute_similarity(A, B) is (sum of the lengths of A \cap B, A \cap B)
\* exactly when A \cap B has at least 2 tokens and that sum is at least 10, or
\* A \cap B has a token of length at least 8; otherwise it is (0, {}).
C3_Similarity ==
    pc = "simdone" =>
        LET both == simIn[1] \cap simIn[2]
            total == SumLen(both)
            accepted == \/ (Cardinality(both) >= 2 /\ total >= 10)
                        \/ \E w \in both : Len(w) >= 8
        IN /\ accepted => simOut = <<total, both>>
           /\ ~accepted => simOut = <<0, {}>>
           /\ (simOut = <<total, both>> /\ total > 0) => accepted

\* C3 witness: a pair accepted on two short tokens of combined length
\* exactly 10, with no token of length 8.
C3_Witness ==
    /\ pc = "simdone"
    /\ simIn[1] \cap simIn[2] = {"oauth", "proxy"}
    /\ simOut = <<10, {"oauth", "proxy"}>>

\* C4: the owner of a pairs entry and each issue recorded as related to it,
\* and the primary and each related member of a group, share a keyword whose
\* bucket holds between 2 and 14 issues.
C4_LinkedThroughSmallBucket ==
    /\ \A n \in DOMAIN pairs : \A m \in pairs[n].related :
           \E kw \in issue_keywords[n] \cap issue_keywords[m] : SmallBucket(kw)
    /\ \A i \in DOMAIN groups : \A a \in DOMAIN groups[i].related :
           \E kw \in issue_keywords[groups[i].primary]
                         \cap issue_keywords[groups[i].related[a]] : SmallBucket(kw)

\* C4 witness: a keyword held by 15 or more issues generated no pair, yet two
\* of its holders are grouped, linked through a second keyword.
C4_Witness ==
    /\ pc = "done"
    /\ \E big \in DOMAIN keyword_to_issues :
           /\ Cardinality(keyword_to_issues[big]) >= 15
           /\ \E i \in DOMAIN groups : \E a \in DOMAIN groups[i].related :
                  /\ big \in issue_keywords[groups[i].primary]
                  /\ big \in issue_keywords[groups[i].related[a]]
           /\ \E n \in keyword_to_issues[big] :
                  \A i \in DOMAIN groups : n \notin Members(groups[i])

\* C5: after a failed fetch the run has written the error diagnostic, has
\* exited with status 1, and holds no issue, score, index, pair, group or
\* rendered line.
C5_FetchFailureFatal ==
    returncode > 0 =>
        /\ pc = "exit"
        /\ exitCode = 1
        /\ "Error fetching issues" \in Range(stderr)
        /\ issues = <<>>
        /\ issue_keywords = <<>>
        /\ pairs = <<>>
        /\ groups = <<>>
        /\ stdout = <<>>

\* C5 witness: the fetch has failed.
C5_Witness == returncode > 0 /\ pc = "exit"

\* Some label name is "bug" or "security" in some letter case.
HasBugLabel(issue) ==
    \E i \in DOMAIN issue.labels :
        issue.labels[i] \in {"bug", "Bug", "BUG", "security", "Security", "SECURITY"}

\* Identical reactions, comments and timestamps.
SameProfile(a, b) ==
    /\ a.reactionGroups = b.reactionGroups
    /\ a.comments = b.comments
    /\ a.updatedAt = b.updatedAt
    /\ a.createdAt = b.createdAt

\* C6: of two issues with the same reactions, comments and timestamps, one
\* with a bug/security label (any letter case) and one without, the labelled
\* one scores exactly 1.5 times the other.
C6_LabelMultiplier ==
    (pc = "calcdone" /\ SameProfile(scoreIn[1], scoreIn[2])
        /\ HasBugLabel(scoreIn[1]) /\ ~HasBugLabel(scoreIn[2]))
    => 2 * scoreOut[1] = 3 * scoreOut[2]

\* C6 witness: such a pair, labelled "Security", with a non-zero score that
\* has a half-point part.
C6_Witness ==
    /\ pc = "calcdone"
    /\ SameProfile(scoreIn[1], scoreIn[2])
    /\ scoreIn[1].labels = <<"docs", "Security">>
    /\ ~HasBugLabel(scoreIn[2])
    /\ scoreIn[2].comments = 1
    /\ scoreOut[2] > 0

\* C7 (as claimed): every pair is recorded under its higher-scoring member,
\* so a primary scores at least as high as each of its related members.
C7_OwnerScoresHighest ==
    /\ \A n \in DOMAIN pairs : \A m \in pairs[n].related : ScoreOf(n) >= ScoreOf(m)
    /\ \A i \in DOMAIN groups : \A a \in DOMAIN groups[i].related :
           ScoreOf(groups[i].primary) >= ScoreOf(groups[i].related[a])

\* C8 (as claimed): groups come in descending primary score and the related
\* members of a group in descending score, equal scores in the order of the
\* input list.
C8_TiesByInputOrder ==
    /\ \A i, j \in DOMAIN groups :
           i < j => Before(groups[i].primary, groups[j].primary)
    /\ \A i \in DOMAIN groups : \A a, b \in DOMAIN groups[i].related :
           a < b => Before(groups[i].related[a], groups[i].related[b])

\* C9: sharedKeywords is the intersection of the primary's keywords with the
\* keywords of every selected related member when that is non-empty, else the
\* union of the keywords the primary shares with each issue recorded as
\* related to it.
C9_SharedKeywords ==
    \A i \in DOMAIN groups :
        LET g == groups[i]
            common == {w \in issue_keywords[g.primary] :
                          \A a \in DOMAIN g.related : w \in issue_keywords[g.related[a]]}
            pairwise == UNION {issue_keywords[g.primary] \cap issue_keywords[m] :
                                   m \in pairs[g.primary].related}
        IN g.sharedKeywords = IF common # {} THEN common ELSE pairwise

\* C9 witness: a group whose members have no keyword in common, so that the
\* pairwise union is displayed.
C9_Witness ==
    \E i \in DOMAIN groups :
        /\ {w \in issue_keywords[groups[i].primary] :
               \A a \in DOMAIN groups[i].related :
                   w \in issue_keywords[groups[i].related[a]]} = {}
        /\ Cardinality(groups[i].sharedKeywords) >= 2

====
